---------------------------- MODULE Spec2Model ----------------------------
(***************************************************************************)
(* TravelViz (src/app.py): the badge calculator, the geocode fallback, the *)
(* Insights aggregates, the JSON persistence helpers and the page handlers *)
(* of the Streamlit script, as state machines.                             *)
(*                                                                         *)
(* Python values are modelled as follows.  A str that the code inspects    *)
(* character by character (a destination) is a sequence of one-character   *)
(* strings, and so is every other text value.  A leaf value that JSON can  *)
(* hold is tagged with its Python type: PyNone, PyFloat(x), PyStr(s).  A   *)
(* dict is a function from its keys (dict keys are TLA+ strings) and a     *)
(* list is a sequence.  Floats are integers in hundredths.                 *)
(***************************************************************************)
EXTENDS Integers, Sequences, FiniteSets, TLC

VARIABLES
  users_file,   \* what users.json holds
  trips_file,   \* what trips.json holds
  session,      \* st.session_state of each browser session
  run,          \* each session's script run: idle, or the globals users, trips
  outcome,      \* what each session's last finished run reported, and about whom
  ops,          \* how many runs have started so far
  call          \* a call of one of the pure functions, and its result

appvars == <<users_file, trips_file, session, run, outcome, ops>>

vars == <<users_file, trips_file, session, run, outcome, ops, call>>

\* ------------------------------------------------------------------ bounds
\* Largest trip count handed to get_user_badge (999 is tried besides).
MaxTripCount == 12

\* ---------------------------------------------------------- Python values
PyNone == [t |-> "NoneType"]
PyFloat(x) == [t |-> "float", v |-> x]
PyStr(s) == [t |-> "str", v |-> s]

\* The text shown for a trip without destination, lines 244 and 460.
s_unknown == <<"(","u","n","k","n","o","w","n",")">>

\* Optional[int] / Optional[tuple]: None is the empty sequence.
None == <<>>

UpperChars ==
  <<"A","B","C","D","E","F","G","H","I","J","K","L","M",
    "N","O","P","Q","R","S","T","U","V","W","X","Y","Z">>

LowerChars ==
  <<"a","b","c","d","e","f","g","h","i","j","k","l","m",
    "n","o","p","q","r","s","t","u","v","w","x","y","z">>

\* str.lower() on one character.
lower_char(c) ==
  IF \E i \in 1..Len(UpperChars) : UpperChars[i] = c
  THEN LowerChars[CHOOSE i \in 1..Len(UpperChars) : UpperChars[i] = c]
  ELSE c

\* str.lower()
str_lower(s) == [i \in 1..Len(s) |-> lower_char(s[i])]

\* str.isspace() on one character.
is_space(c) == c \in {" ", "\t", "\n"}

RECURSIVE str_lstrip(_)
str_lstrip(s) ==
  IF s # <<>> /\ is_space(Head(s)) THEN str_lstrip(Tail(s)) ELSE s

RECURSIVE str_rstrip(_)
str_rstrip(s) ==
  IF s # <<>> /\ is_space(s[Len(s)])
  THEN str_rstrip(SubSeq(s, 1, Len(s) - 1))
  ELSE s

\* str.strip()
str_strip(s) == str_rstrip(str_lstrip(s))

\* Python's `k in s` on two strs: k is a substring of s.
str_contains(k, s) ==
  \E i \in 0..(Len(s) - Len(k)) : SubSeq(s, i + 1, i + Len(k)) = k

\* ------------------------------------------------------------------ badges
\* The tiers list of get_user_badge, (name, threshold), in list order.
tiers ==
  << <<"New Traveler", 0>>,
     <<"Explorer", 1>>,
     <<"Adventurer", 3>>,
     <<"Globetrotter", 6>>,
     <<"World Citizen", 10>> >>

\* The body of the for loop of get_user_badge from index i on, with the
\* locals (current_badge, level_index, next_threshold) in acc.
RECURSIVE badge_loop(_, _, _)
badge_loop(i, acc, trip_count) ==
  IF i > Len(tiers) THEN acc
  ELSE IF trip_count >= tiers[i][2]
       THEN badge_loop(i + 1,
                       <<tiers[i][1], i - 1,
                         IF i + 1 <= Len(tiers) THEN <<tiers[i + 1][2]>> ELSE None>>,
                       trip_count)
       ELSE acc

\* The same loop with > for >= (a plausible slip).
RECURSIVE badge_loop_strict(_, _, _)
badge_loop_strict(i, acc, trip_count) ==
  IF i > Len(tiers) THEN acc
  ELSE IF trip_count > tiers[i][2]
       THEN badge_loop_strict(i + 1,
                       <<tiers[i][1], i - 1,
                         IF i + 1 <= Len(tiers) THEN <<tiers[i + 1][2]>> ELSE None>>,
                       trip_count)
       ELSE acc

\* The same loop with the threshold of the tier itself as next_threshold.
RECURSIVE badge_loop_own(_, _, _)
badge_loop_own(i, acc, trip_count) ==
  IF i > Len(tiers) THEN acc
  ELSE IF trip_count >= tiers[i][2]
       THEN badge_loop_own(i + 1,
                       <<tiers[i][1], i - 1,
                         IF i + 1 <= Len(tiers) THEN <<tiers[i][2]>> ELSE None>>,
                       trip_count)
       ELSE acc

get_user_badge_own(trip_count) ==
  badge_loop_own(1, <<tiers[1][1], 0, <<tiers[2][2]>> >>, trip_count)

get_user_badge_strict(trip_count) ==
  badge_loop_strict(1, <<tiers[1][1], 0, <<tiers[2][2]>> >>, trip_count)

\* get_user_badge(trip_count) -> (current_badge, level_index, next_threshold);
\* next_threshold is <<n>> or None.  level_index is 0-based as in the code.
get_user_badge(trip_count) ==
  badge_loop(1, <<tiers[1][1], 0, <<tiers[2][2]>> >>, trip_count)

\* Line 394 of the Home page: the trips still to log for the next badge.
remaining(next_threshold, total_trips) ==
  LET x == IF next_threshold # None THEN next_threshold[1] - total_trips ELSE 0
  IN  IF x > 0 THEN x ELSE 0

\* ------------------------------------------------------- geocode fallback
s_france == <<"f","r","a","n","c","e">>
s_paris == <<"p","a","r","i","s">>
s_india == <<"i","n","d","i","a">>
s_usa == <<"u","s","a">>
s_japan == <<"j","a","p","a","n">>
s_tokyo == <<"t","o","k","y","o">>

\* FALLBACK_CENTROIDS in dict (insertion) order; coordinates in hundredths.
FALLBACK_CENTROIDS ==
  << <<s_france, <<4620, 220>> >>,
     <<s_paris, <<4885, 235>> >>,
     <<s_india, <<2059, 7896>> >>,
     <<s_usa, <<3709, -9571>> >>,
     <<s_japan, <<3620, 13825>> >>,
     <<s_tokyo, <<3567, 13965>> >> >>

\* The for loop of fallback_coords_for_destination from table index i on.
RECURSIVE centroid_scan(_, _)
centroid_scan(i, key) ==
  IF i > Len(FALLBACK_CENTROIDS) THEN None
  ELSE IF str_contains(FALLBACK_CENTROIDS[i][1], key)
       THEN FALLBACK_CENTROIDS[i][2]
       ELSE centroid_scan(i + 1, key)

\* The scan that keeps the last match instead of returning the first.
RECURSIVE centroid_scan_last(_, _, _)
centroid_scan_last(i, key, found) ==
  IF i > Len(FALLBACK_CENTROIDS) THEN found
  ELSE centroid_scan_last(i + 1, key,
         IF str_contains(FALLBACK_CENTROIDS[i][1], key)
         THEN FALLBACK_CENTROIDS[i][2] ELSE found)

fallback_coords_last_match(dest) ==
  centroid_scan_last(1, str_lower(str_strip(dest)), None)

\* fallback_coords_for_destination(dest) -> (lat, lon) or None
fallback_coords_for_destination(dest) ==
  centroid_scan(1, str_lower(str_strip(dest)))

\* ------------------------------------------------------------------- JSON
\* A JSON value, as json.dump writes it and json.load reads it.
JNull == [j |-> "null"]
JNum(x) == [j |-> "number", n |-> x]
JStr(s) == [j |-> "string", s |-> s]
JBool(b) == [j |-> "bool", b |-> b]
JArr(items) == [j |-> "array", items |-> items]
JObj(members) == [j |-> "object", members |-> members]

PyBool(b) == [t |-> "bool", v |-> b]

\* json.dump of a leaf value.
json_of_leaf(v) ==
  CASE v.t = "NoneType" -> JNull
    [] v.t = "float" -> JNum(v.v)
    [] v.t = "bool" -> JBool(v.v)
    [] v.t = "str" -> JStr(v.v)

\* json.dump of a dict whose values are leaves (an expense, a checklist item).
json_of_flat_dict(d) == JObj([k \in DOMAIN d |-> json_of_leaf(d[k])])

json_of_list_of_dicts(l) == JArr([i \in 1..Len(l) |-> json_of_flat_dict(l[i])])

ListFields == {"expenses", "checklist"}

\* json.dump of one trip dict.
json_of_trip(t) ==
  JObj([k \in DOMAIN t |->
          IF k \in ListFields THEN json_of_list_of_dicts(t[k])
          ELSE json_of_leaf(t[k])])

\* json.dump of the trips mapping: username -> list of trip dicts.
json_of_trips(trips) ==
  JObj([u \in DOMAIN trips |->
          JArr([i \in 1..Len(trips[u]) |-> json_of_trip(trips[u][i])])])

\* json.load of a JSON value: objects to dicts, arrays to lists, leaves to leaves.
RECURSIVE py_of_json(_)
py_of_json(J) ==
  CASE J.j = "null" -> PyNone
    [] J.j = "number" -> PyFloat(J.n)
    [] J.j = "bool" -> PyBool(J.b)
    [] J.j = "string" -> PyStr(J.s)
    [] J.j = "array" -> [i \in 1..Len(J.items) |-> py_of_json(J.items[i])]
    [] J.j = "object" -> [k \in DOMAIN J.members |-> py_of_json(J.members[k])]

\* ------------------------------------------------------------------ files
\* What a file on disk holds: nothing, text that is a JSON document, text that
\* is not JSON (json.load raises JSONDecodeError), or bytes that are not text
\* in the encoding open() uses (reading raises UnicodeDecodeError).
FileAbsent == [kind |-> "absent"]
FileJson(J) == [kind |-> "json", doc |-> J]
FileNotJson == [kind |-> "not_json"]
FileNotText == [kind |-> "not_text"]

Returned(v) == [raised |-> FALSE, value |-> v]
Raised(e) == [raised |-> TRUE, exc |-> e]

\* dict.get(k, default)
py_get(d, k, default) == IF k \in DOMAIN d THEN d[k] ELSE default

\* dict.setdefault(k, default), as the dict it leaves behind.
py_setdefault(d, k, default) ==
  IF k \in DOMAIN d THEN d
  ELSE [x \in DOMAIN d \cup {k} |-> IF x = k THEN default ELSE d[x]]

\* list.pop(i) with the 0-based index i, as the list it leaves behind.
py_pop(l, i) == SubSeq(l, 1, i) \o SubSeq(l, i + 2, Len(l))

\* d = {k: v} for d[k] = v: the dict is replaced, not extended.
py_setitem_replace(d, k, v) == [x \in {k} |-> v]

\* d[k] = v, as the dict it leaves behind.
py_setitem(d, k, v) ==
  [x \in DOMAIN d \cup {k} |-> IF x = k THEN v ELSE d[x]]

\* Lines 68-73 only: the two coordinates are not filled in.
backfill_trip_no_coords(t) ==
  LET t1 == py_setdefault(t, "destination", PyStr(<<>>))
      t2 == py_setdefault(t1, "start_date", PyStr(<<>>))
      t3 == py_setdefault(t2, "end_date", PyStr(<<>>))
      t4 == py_setdefault(t3, "notes", PyStr(<<>>))
      t5 == py_setdefault(t4, "expenses", <<>>)
  IN  py_setdefault(t5, "checklist", <<>>)

\* Lines 68-75 with plain assignment where the code calls setdefault.
backfill_trip_overwrite(t) ==
  LET t1 == py_setdefault(t, "destination", PyStr(<<>>))
      t2 == py_setdefault(t1, "start_date", PyStr(<<>>))
      t3 == py_setdefault(t2, "end_date", PyStr(<<>>))
      t4 == py_setitem(t3, "notes", PyStr(<<>>))
      t5 == py_setdefault(t4, "expenses", <<>>)
      t6 == py_setdefault(t5, "checklist", <<>>)
      t7 == py_setitem(t6, "lat", PyNone)
  IN  py_setdefault(t7, "lon", PyNone)

\* The eight setdefault calls of load_trips on one trip dict, lines 68-75.
backfill_trip(t) ==
  LET t1 == py_setdefault(t, "destination", PyStr(<<>>))
      t2 == py_setdefault(t1, "start_date", PyStr(<<>>))
      t3 == py_setdefault(t2, "end_date", PyStr(<<>>))
      t4 == py_setdefault(t3, "notes", PyStr(<<>>))
      t5 == py_setdefault(t4, "expenses", <<>>)
      t6 == py_setdefault(t5, "checklist", <<>>)
      t7 == py_setdefault(t6, "lat", PyNone)
  IN  py_setdefault(t7, "lon", PyNone)

\* json.load gave a document on which the loops of load_trips run through:
\* an object whose values are arrays of objects.  On any other document
\* data.items(), the iteration or t.setdefault raises (AttributeError or
\* TypeError), which the except clause for JSONDecodeError does not catch.
trips_doc_shape_ok(J) ==
  /\ J.j = "object"
  /\ \A u \in DOMAIN J.members :
       /\ J.members[u].j = "array"
       /\ \A i \in 1..Len(J.members[u].items) : J.members[u].items[i].j = "object"

\* load_trips() on the given content of trips.json.
load_trips(file) ==
  CASE file.kind = "absent" -> Returned(<<>>)
    [] file.kind = "not_json" -> Returned(<<>>)
    [] file.kind = "not_text" -> Raised("UnicodeDecodeError")
    [] file.kind = "json" ->
         IF trips_doc_shape_ok(file.doc)
         THEN LET data == py_of_json(file.doc)
              IN  Returned([u \in DOMAIN data |->
                     [i \in 1..Len(data[u]) |-> backfill_trip(data[u][i])]])
         ELSE Raised("AttributeError")

\* save_trips(trips): the content of trips.json after the call.
save_trips(trips) == FileJson(json_of_trips(trips))

\* ------------------------------------------------------------------ users
s_user == <<"u","s","e","r">>
s_admin == <<"a","d","m","i","n">>

\* The record load_users makes of a legacy bare password string, lines 38-45.
upgraded_user(password) ==
  [password |-> password,
   profile_pic |-> PyNone,
   role |-> PyStr(s_user),
   bio |-> PyStr(<<>>),
   favorite_destination |-> PyStr(<<>>),
   goals |-> PyStr(<<>>)]

\* Lines 46-50 with plain assignment where the code calls setdefault.
backfill_user_overwrite(d) ==
  LET d1 == py_setitem(d, "role", PyStr(s_user))
      d2 == py_setitem(d1, "profile_pic", PyNone)
      d3 == py_setitem(d2, "bio", PyStr(<<>>))
      d4 == py_setitem(d3, "favorite_destination", PyStr(<<>>))
  IN  py_setitem(d4, "goals", PyStr(<<>>))

\* The five setdefault calls of load_users on one user dict, lines 46-50.
backfill_user(d) ==
  LET d1 == py_setdefault(d, "role", PyStr(s_user))
      d2 == py_setdefault(d1, "profile_pic", PyNone)
      d3 == py_setdefault(d2, "bio", PyStr(<<>>))
      d4 == py_setdefault(d3, "favorite_destination", PyStr(<<>>))
  IN  py_setdefault(d4, "goals", PyStr(<<>>))

\* json.load gave a document on which the loop of load_users runs through: an
\* object whose values are strings or objects.  On any other document
\* data.keys() or data[user].setdefault raises AttributeError, which the
\* except clause for JSONDecodeError does not catch.
users_doc_shape_ok(J) ==
  /\ J.j = "object"
  /\ \A u \in DOMAIN J.members : J.members[u].j \in {"string", "object"}

\* load_users() on the given content of users.json.
load_users(file) ==
  CASE file.kind = "absent" -> Returned(<<>>)
    [] file.kind = "not_json" -> Returned(<<>>)
    [] file.kind = "not_text" -> Raised("UnicodeDecodeError")
    [] file.kind = "json" ->
         IF users_doc_shape_ok(file.doc)
         THEN Returned([u \in DOMAIN file.doc.members |->
                 LET J == file.doc.members[u]
                 IN  IF J.j = "string"
                     THEN backfill_user(upgraded_user(py_of_json(J)))
                     ELSE backfill_user(py_of_json(J))])
         ELSE Raised("AttributeError")

\* json.dump of the users mapping: username -> dict of leaves.
json_of_users(users) ==
  JObj([u \in DOMAIN users |-> json_of_flat_dict(users[u])])

\* save_users(users): the content of users.json after the call.
save_users(users) == FileJson(json_of_users(users))

\* The text of a bcrypt hash: the scheme marker, the salt, and the digest,
\* which stands for the password it was made of.
BCRYPT == "$2b$"

\* hash_password(password) with the salt bcrypt.gensalt() drew.
hash_password(password, salt) == <<BCRYPT, salt>> \o password

is_bcrypt_hash(hashed) == Len(hashed) >= 2 /\ hashed[1] = BCRYPT

\* check_password(password, hashed): bcrypt.checkpw raises ValueError
\* ("Invalid salt") on a text that is not a bcrypt hash.
check_password(password, hashed) ==
  IF is_bcrypt_hash(hashed)
  THEN Returned(hashed = hash_password(password, hashed[2]))
  ELSE Raised("ValueError")

\* --------------------------------------------------------------- Insights
\* The text stat_card shows for no trips: the one-character string U+2014.
EM_DASH == <<"EM DASH">>

\* dest_counts[k] += 1 on the defaultdict, kept as the (key, count) items in
\* insertion order.
count_key(items, k) ==
  IF \E i \in 1..Len(items) : items[i][1] = k
  THEN [i \in 1..Len(items) |->
          IF items[i][1] = k THEN <<k, items[i][2] + 1>> ELSE items[i]]
  ELSE Append(items, <<k, 1>>)

\* The loop of lines 453-454 over user_trips from index i on.
RECURSIVE dest_counts(_, _, _)
dest_counts(user_trips, i, items) ==
  IF i > Len(user_trips) THEN items
  ELSE dest_counts(user_trips, i + 1,
         count_key(items,
                   str_strip(py_get(user_trips[i], "destination", PyStr(<<>>)).v)))

\* max(items, key=lambda x: x[1]): the first item whose count no later item
\* exceeds and no earlier item reaches.
RECURSIVE py_max_by_count(_, _, _)
py_max_by_count(items, i, best) ==
  IF i > Len(items) THEN best
  ELSE py_max_by_count(items, i + 1,
                       IF items[i][2] > best[2] THEN items[i] ELSE best)

\* max that keeps the last of equal counts (>= for >).
RECURSIVE py_max_by_count_last(_, _, _)
py_max_by_count_last(items, i, best) ==
  IF i > Len(items) THEN best
  ELSE py_max_by_count_last(items, i + 1,
                       IF items[i][2] >= best[2] THEN items[i] ELSE best)

most_visited_last(user_trips) ==
  LET items == dest_counts(user_trips, 1, <<>>)
  IN  IF items = <<>> THEN EM_DASH
      ELSE py_max_by_count_last(items, 2, items[1])[1]

\* most_visited of the Insights page, lines 452-455.
most_visited(user_trips) ==
  LET items == dest_counts(user_trips, 1, <<>>)
  IN  IF items = <<>> THEN EM_DASH
      ELSE py_max_by_count(items, 2, items[1])[1]

Digits == <<"0","1","2","3","4","5","6","7","8","9">>

is_digit(c) == \E i \in 1..Len(Digits) : Digits[i] = c

digit_value(c) == (CHOOSE i \in 1..Len(Digits) : Digits[i] = c) - 1

RECURSIVE digits_value(_, _)
digits_value(s, acc) ==
  IF s = <<>> THEN acc ELSE digits_value(Tail(s), acc * 10 + digit_value(Head(s)))

\* float(s) on a str of the forms "d+", "d+.d" and "d+.dd", in hundredths;
\* any other str in the model's alphabet raises ValueError.
float_of_str(s) ==
  LET dot == {i \in 1..Len(s) : s[i] = "."}
      all_digits(x) == x # <<>> /\ \A i \in 1..Len(x) : is_digit(x[i])
  IN  IF all_digits(s) THEN Returned(digits_value(s, 0) * 100)
      ELSE IF Cardinality(dot) = 1
           THEN LET d == CHOOSE i \in dot : TRUE
                    whole == SubSeq(s, 1, d - 1)
                    frac == SubSeq(s, d + 1, Len(s))
                IN  IF all_digits(whole) /\ all_digits(frac) /\ Len(frac) <= 2
                    THEN Returned(digits_value(whole, 0) * 100
                                  + (IF Len(frac) = 1 THEN 10 ELSE 1) * digits_value(frac, 0))
                    ELSE Raised("ValueError")
           ELSE Raised("ValueError")

\* bool(v) of a leaf value.
py_truthy(v) ==
  CASE v.t = "NoneType" -> FALSE
    [] v.t = "float" -> v.v # 0
    [] v.t = "bool" -> v.v
    [] v.t = "str" -> v.v # <<>>

\* float(v) of a leaf value.
py_float(v) ==
  CASE v.t = "NoneType" -> Raised("TypeError")
    [] v.t = "float" -> Returned(v.v)
    [] v.t = "bool" -> Returned(IF v.v THEN 100 ELSE 0)
    [] v.t = "str" -> float_of_str(v.v)

\* float(e.get("amount", 0) or 0), line 465.
expense_amount(e) ==
  LET a == py_get(e, "amount", PyFloat(0))
  IN  py_float(IF py_truthy(a) THEN a ELSE PyFloat(0))

\* The inner loop of lines 464-472 from expense j on: trip_total, or the
\* exception float() raised.
RECURSIVE trip_total_loop(_, _, _)
trip_total_loop(expenses, j, trip_total) ==
  IF j > Len(expenses) THEN Returned(trip_total)
  ELSE LET amt == expense_amount(expenses[j])
       IN  IF amt.raised THEN amt
           ELSE trip_total_loop(expenses, j + 1, trip_total + amt.value)

\* The outer loop of lines 460-473 from trip i on: total_expenses, or the
\* exception that ended the run of the page.
RECURSIVE total_expenses_loop(_, _, _)
total_expenses_loop(user_trips, i, total) ==
  IF i > Len(user_trips) THEN Returned(total)
  ELSE LET tt == trip_total_loop(py_get(user_trips[i], "expenses", <<>>), 1, 0)
       IN  IF tt.raised THEN tt
           ELSE total_expenses_loop(user_trips, i + 1, total + tt.value)

total_expenses(user_trips) == total_expenses_loop(user_trips, 1, 0)

\* The characters of the model in the order of their code points.
CodePoints ==
  <<" ", "(", ")", ",", "-", ".">> \o Digits \o <<":">> \o UpperChars \o LowerChars

ord(c) == CHOOSE i \in 1..Len(CodePoints) : CodePoints[i] = c

\* a < b on two str.
RECURSIVE str_lt(_, _)
str_lt(a, b) ==
  IF b = <<>> THEN FALSE
  ELSE IF a = <<>> THEN TRUE
  ELSE IF Head(a) = Head(b) THEN str_lt(Tail(a), Tail(b))
  ELSE ord(Head(a)) < ord(Head(b))

\* Lines 460-472: the rows the inner loop appends for trip t (the date column
\* is left out; it plays no part in the totals per trip).
expenses_rows_of(t) ==
  LET expenses == py_get(t, "expenses", <<>>)
  IN  [j \in 1..Len(expenses) |->
         [destination |-> py_get(t, "destination", PyStr(s_unknown)),
          category |-> py_get(expenses[j], "category", PyStr(<<>>)),
          amount |-> expense_amount(expenses[j]).value]]

RECURSIVE expenses_rows(_, _)
expenses_rows(user_trips, i) ==
  IF i > Len(user_trips) THEN <<>>
  ELSE expenses_rows_of(user_trips[i]) \o expenses_rows(user_trips, i + 1)

\* The group keys of groupby("destination"), in ascending order.
RECURSIVE sorted_keys(_)
sorted_keys(keys) ==
  IF keys = {} THEN <<>>
  ELSE LET least == CHOOSE k \in keys : \A x \in keys \ {k} : str_lt(k.v, x.v)
       IN  <<least>> \o sorted_keys(keys \ {least})

RECURSIVE sum_amounts(_, _)
sum_amounts(rows, key) ==
  IF rows = <<>> THEN 0
  ELSE (IF Head(rows).destination = key THEN Head(rows).amount ELSE 0)
         + sum_amounts(Tail(rows), key)

\* groupby("destination", as_index=False)["amount"].sum(): one row for each
\* destination text, with the amounts of all rows of that text added up.
groupby_destination(rows) ==
  LET keys == sorted_keys({rows[j].destination : j \in 1..Len(rows)})
  IN  [g \in 1..Len(keys) |->
         [destination |-> keys[g], amount |-> sum_amounts(rows, keys[g])]]

\* sort_values("amount", ascending=False): the larger amount first, equal
\* amounts in the order of the frame.
RECURSIVE sort_by_amount(_)
sort_by_amount(frame) ==
  IF frame = <<>> THEN <<>>
  ELSE LET top == CHOOSE g \in 1..Len(frame) :
                    /\ \A h \in 1..Len(frame) : frame[h].amount <= frame[g].amount
                    /\ \A h \in 1..(g - 1) : frame[h].amount < frame[g].amount
       IN  <<frame[top]>> \o sort_by_amount(py_pop(frame, top - 1))

\* Lines 483-486: per_trip, the data of the chart "Expenses per Trip"; no
\* chart, the empty frame here, when there are no expense rows.
per_trip(user_trips) ==
  LET rows == expenses_rows(user_trips, 1)
  IN  IF rows = <<>> THEN <<>> ELSE sort_by_amount(groupby_destination(rows))

\* The summary metrics of the Insights page, lines 451-478: what the three
\* stat cards show, or the exception that the run ended with.
insights_summary(user_trips) ==
  LET te == total_expenses(user_trips)
  IN  IF te.raised THEN te
      ELSE Returned([total_trips |-> Len(user_trips),
                     most_visited |-> most_visited(user_trips),
                     total_expenses |-> te.value,
                     per_trip |-> per_trip(user_trips)])

\* ---------------------------------------------------------------- reminders
\* str.split("-"): the parts of s between its "-" characters.
RECURSIVE split_dash(_, _, _)
split_dash(s, part, parts) ==
  IF s = <<>> THEN Append(parts, part)
  ELSE IF Head(s) = "-" THEN split_dash(Tail(s), <<>>, Append(parts, part))
  ELSE split_dash(Tail(s), Append(part, Head(s)), parts)

only_digits(x) == x # <<>> /\ \A i \in 1..Len(x) : is_digit(x[i])

\* The directive %Y of strptime: exactly four digits.
matches_Y(x) == Len(x) = 4 /\ only_digits(x)

\* The directive %m of strptime: 1[0-2] | 0[1-9] | [1-9].
matches_m(x) ==
  /\ only_digits(x) /\ Len(x) <= 2
  /\ digits_value(x, 0) \in 1..12

\* The directive %d of strptime: 3[0-1] | [1-2]\d | 0[1-9] | [1-9] | " "[1-9].
matches_d(x) ==
  \/ only_digits(x) /\ Len(x) <= 2 /\ digits_value(x, 0) \in 1..31
  \/ Len(x) = 2 /\ x[1] = " " /\ is_digit(x[2]) /\ x[2] # "0"

day_value(x) == IF x[1] = " " THEN digit_value(x[2]) ELSE digits_value(x, 0)

is_leap(y) == y % 4 = 0 /\ (y % 100 # 0 \/ y % 400 = 0)

days_in_month(y, m) ==
  IF m = 2 THEN (IF is_leap(y) THEN 29 ELSE 28)
  ELSE IF m \in {4, 6, 9, 11} THEN 30 ELSE 31

\* datetime.date(y, m, d): the date, or ValueError outside the calendar.
py_date(y, m, d) ==
  IF y >= 1 /\ y <= 9999 /\ m \in 1..12 /\ d >= 1 /\ d <= days_in_month(y, m)
  THEN Returned([year |-> y, month |-> m, day |-> d])
  ELSE Raised("ValueError")

\* datetime.strptime(s, "%Y-%m-%d").date() on a str: the whole text has to
\* match the three directives with "-" between them.
strptime_ymd(s) ==
  LET parts == split_dash(s, <<>>, <<>>)
  IN  IF Len(parts) = 3 /\ matches_Y(parts[1]) /\ matches_m(parts[2])
         /\ matches_d(parts[3])
      THEN py_date(digits_value(parts[1], 0), digits_value(parts[2], 0),
                   day_value(parts[3]))
      ELSE Raised("ValueError")

\* Lines 231-235: parse_date_str on the value found under "start_date"; a
\* value that is no str makes strptime raise TypeError, caught like the rest.
parse_date_str(v) ==
  IF v.t # "str" THEN None
  ELSE IF strptime_ymd(v.v).raised THEN None
  ELSE strptime_ymd(v.v).value

RECURSIVE days_before_month(_, _)
days_before_month(y, m) ==
  IF m = 1 THEN 0 ELSE days_before_month(y, m - 1) + days_in_month(y, m - 1)

\* date.toordinal(): days since 0001-01-01, that day being 1.
toordinal(d) ==
  LET y == d.year - 1
  IN  y * 365 + (y \div 4) - (y \div 100) + (y \div 400)
        + days_before_month(d.year, d.month) + d.day

\* Line 243 with the lower end of the range left out.
wants_reminder_future(days_left) == 0 < days_left /\ days_left <= 3

\* Line 243: 0 <= days_left <= 3.
wants_reminder(days_left) == 0 <= days_left /\ days_left <= 3

\* Lines 239-244: the loop over the user's trips; toasts collects what
\* st.toast was called with, in order.
RECURSIVE reminders_loop(_, _, _, _)
reminders_loop(user_trips, i, today, toasts) ==
  IF i > Len(user_trips) THEN toasts
  ELSE LET t == user_trips[i]
           d == parse_date_str(py_get(t, "start_date", PyStr(<<>>)))
           days_left == toordinal(d) - toordinal(today)
       IN  IF d = None THEN reminders_loop(user_trips, i + 1, today, toasts)
           ELSE IF wants_reminder(days_left)
           THEN reminders_loop(user_trips, i + 1, today,
                  Append(toasts,
                         [destination |-> py_get(t, "destination", PyStr(s_unknown)),
                          days_left |-> days_left]))
           ELSE reminders_loop(user_trips, i + 1, today, toasts)

\* Lines 237-244: trigger_reminders, with date.today() as the argument today.
trigger_reminders(username, trips_dict, today) ==
  reminders_loop(py_get(trips_dict, username, <<>>), 1, today, <<>>)

\* ------------------------------------------------------------- test inputs
d_Paris == <<"P","a","r","i","s">>
d_Tokyo == <<"T","o","k","y","o">>
d_Paris_sp == <<" ","P","a","r","i","s">>
d_Paris_France == <<"P","a","r","i","s",","," ","F","r","a","n","c","e">>
d_Tokyo_Japan == <<" ","T","O","K","Y","O",","," ","j","a","p","a","n"," ">>
d_Lyon == <<"L","y","o","n">>
d_USA == <<"U","S","A">>
d_Busan == <<"B","u","s","a","n">>
d_Delhi_India == <<"D","e","l","h","i"," ","I","n","d","i","a">>
d_empty == <<>>

\* Destinations handed to fallback_coords_for_destination.
CoordInputs ==
  {d_Paris, d_Tokyo, d_Paris_sp, d_Paris_France, d_Tokyo_Japan, d_Lyon,
   d_USA, d_Busan, d_Delhi_India, d_empty, s_france, s_japan}

\* Trip counts handed to get_user_badge.
TripCounts == (0..MaxTripCount) \cup {999}

d_2025_06_03 == <<"2","0","2","5","-","0","6","-","0","3">>
d_2025_06_05 == <<"2","0","2","5","-","0","6","-","0","5">>
c_Food == <<"F","o","o","d">>
t_x == <<"x">>
t_bad == <<"b","a","d">>
t_7_5 == <<"7",".","5">>

\* new_trip of the Trip Planner, lines 579-588.
new_trip(destination, start_date, end_date, notes, lat_val, lon_val) ==
  [destination |-> PyStr(destination),
   start_date |-> PyStr(start_date),
   end_date |-> PyStr(end_date),
   notes |-> PyStr(notes),
   expenses |-> <<>>,
   checklist |-> <<>>,
   lat |-> lat_val,
   lon |-> lon_val]

Expense(amount) ==
  [category |-> PyStr(c_Food), description |-> PyStr(t_x), amount |-> amount]

ExpenseNoAmount == [category |-> PyStr(c_Food), description |-> PyStr(t_x)]

\* The amounts 10.50, 5 and "bad".
ExpensesWithBad ==
  <<Expense(PyFloat(1050)), Expense(PyFloat(500)), Expense(PyStr(t_bad))>>

\* Expense lists of the trips handed to the Insights aggregates.
ExpenseLists ==
  { <<>>,
    ExpensesWithBad,
    <<Expense(PyFloat(1050)), Expense(PyFloat(500))>>,
    <<ExpenseNoAmount, Expense(PyNone), Expense(PyStr(<<>>))>>,
    <<Expense(PyStr(t_7_5))>> }

TripWith(destination, expenses) ==
  [new_trip(destination, d_2025_06_03, d_2025_06_05, <<>>, PyNone, PyNone)
     EXCEPT !.expenses = expenses]

InsightTrips ==
  {TripWith(d, e) : d \in {d_Paris, d_Paris_sp, d_Tokyo}, e \in ExpenseLists}

\* Longest trip sequence handed to the Insights aggregates.
MaxInsightTrips == 3

SeqsUpTo(S, n) == UNION {[1..k -> S] : k \in 0..n}

\* Texts found under "start_date": what str(start_date) of the Trip Planner
\* writes, texts strptime accepts besides, and texts it refuses.
d_2025_06_01 == <<"2","0","2","5","-","0","6","-","0","1">>
d_2025_06_04 == <<"2","0","2","5","-","0","6","-","0","4">>
d_2025_06_10 == <<"2","0","2","5","-","0","6","-","1","0">>
d_2025_05_31 == <<"2","0","2","5","-","0","5","-","3","1">>
d_2025_03_01 == <<"2","0","2","5","-","0","3","-","0","1">>
d_2024_02_29 == <<"2","0","2","4","-","0","2","-","2","9">>
d_2025_02_29 == <<"2","0","2","5","-","0","2","-","2","9">>
d_2026_01_02 == <<"2","0","2","6","-","0","1","-","0","2">>
d_2025_6_3 == <<"2","0","2","5","-","6","-","3">>
d_03_06_2025 == <<"0","3","-","0","6","-","2","0","2","5">>
d_2025_06_03_time == d_2025_06_03 \o <<" ","0","9",":","0","0">>
d_2025_06_sp3 == <<"2","0","2","5","-","0","6","-"," ","3">>

StartDates ==
  {d_2025_06_01, d_2025_06_03, d_2025_06_04, d_2025_06_05, d_2025_06_10,
   d_2025_05_31, d_2025_03_01, d_2024_02_29, d_2025_02_29, d_2026_01_02,
   d_2025_6_3, d_2025_06_sp3, d_03_06_2025, d_2025_06_03_time, t_bad, <<>>}

\* Trips handed to trigger_reminders: one per start date, one whose
\* start_date is null and one record without start_date and destination.
ReminderTrips ==
  {new_trip(d_Paris, sd, d_2025_06_05, <<>>, PyNone, PyNone) : sd \in StartDates}
  \cup {[new_trip(d_Tokyo, <<>>, <<>>, <<>>, PyNone, PyNone)
           EXCEPT !.start_date = PyNone],
        [notes |-> PyStr(t_x)],
        [start_date |-> PyStr(d_2025_06_03)]}

\* Values of date.today().
Todays ==
  {[year |-> 2025, month |-> 6, day |-> 1],
   [year |-> 2025, month |-> 2, day |-> 27],
   [year |-> 2024, month |-> 2, day |-> 27],
   [year |-> 2025, month |-> 12, day |-> 31]}

\* Longest trip sequence handed to trigger_reminders.
MaxReminderTrips == 2

\* Trip dicts of the documents handed to load_trips and save_trips: complete
\* ones, and ones an older schema wrote without some fields.
StoredTrips ==
  { new_trip(d_Paris, d_2025_06_03, d_2025_06_05, t_x, PyFloat(4885), PyFloat(235)),
    [TripWith(d_Tokyo, <<Expense(PyFloat(500))>>)
       EXCEPT !.checklist = <<[text |-> PyStr(t_x), done |-> PyBool(TRUE)]>>],
    [destination |-> PyStr(d_Lyon)],
    [destination |-> PyStr(d_Paris), notes |-> PyStr(t_x), lat |-> PyFloat(4885)] }

\* Longest trip list of a stored document.
MaxStoredTrips == 2

Users == {"alice", "bob"}

\* The trips mappings of the given usernames, each with a stored trip list.
TripMappings(names) ==
  UNION {[D -> SeqsUpTo(StoredTrips, MaxStoredTrips)] : D \in SUBSET names}

\* What either file can hold that is no JSON object: nothing, no JSON, no
\* text, or a JSON value of another kind.
NoObjectFiles ==
  {FileAbsent, FileNotJson, FileNotText, FileJson(JArr(<<>>)), FileJson(JNull)}

\* JSON objects that are no trips mapping.
MisshapenTripsFiles ==
  {FileJson(JObj([u \in {"alice"} |-> JStr(t_x)])),
   FileJson(JObj([u \in {"alice"} |-> JArr(<<JNull>>)]))}

\* JSON objects that are no users mapping.
MisshapenUsersFiles ==
  {FileJson(JObj([u \in {"alice"} |-> JNull])),
   FileJson(JObj([u \in {"alice"} |-> JArr(<<>>)]))}

\* ------------------------------------------------------- the app's state
Sessions == {"s1", "s2"}

\* The salts bcrypt.gensalt() can draw.
Salts == {"salt1", "salt2"}

p_pw1 == <<"p","w","1">>
p_pw2 == <<"p","w","2">>

\* Most trips a user's list holds (the code sets no limit).
MaxTrips == 2

\* Most script runs of a behaviour of the trip side, all sessions together.
MaxPlannerRuns == 2

\* Most rows of a checklist or an expense list whose buttons are pressed.
MaxItems == 2

\* Most script runs of a behaviour, all sessions together.
MaxRuns == 3

\* st.session_state as lines 263-267 set it up, and as Logout leaves it.
LoggedOut == [logged_in |-> FALSE, username |-> "", role |-> s_user]

Idle == [pc |-> "idle"]

\* What a run left on the screen of its session: the handler, the username
\* it was about, the message shown or the exception that ended the run, and
\* in detail the trips that the Trip Planner listed (or the index of the
\* button that was pressed).
ReportWith(op, subject, result, detail) ==
  [op |-> op, subject |-> subject, result |-> result, detail |-> detail]

Report(op, subject, result) == ReportWith(op, subject, result, <<>>)

NoReport == Report("none", "", "none")

\* users.json of an installation of the older schema, with a bare password
\* string for alice, and an administrator bob.
LegacyUsersFile ==
  FileJson(JObj([u \in {"alice", "bob"} |->
    IF u = "alice" THEN JStr(p_pw1)
    ELSE json_of_flat_dict(
           [upgraded_user(PyStr(hash_password(p_pw1, "salt1")))
              EXCEPT !.role = PyStr(s_admin)])]))

InitApp ==
  /\ users_file \in {FileAbsent, LegacyUsersFile}
  /\ trips_file = FileAbsent
  /\ session = [s \in Sessions |-> LoggedOut]
  /\ run = [s \in Sessions |-> Idle]
  /\ outcome = [s \in Sessions |-> NoReport]
  /\ ops = 0

\* The run of session s ends.
EndRun(s, op, subject, result) ==
  /\ run' = [run EXCEPT ![s] = Idle]
  /\ outcome' = [outcome EXCEPT ![s] = Report(op, subject, result)]

EndRunWith(s, op, subject, result, detail) ==
  /\ run' = [run EXCEPT ![s] = Idle]
  /\ outcome' = [outcome EXCEPT ![s] = ReportWith(op, subject, result, detail)]

Loaded(s) == run[s].pc = "loaded"

\* Lines 263-270: a run of the script starts and loads both files into the
\* globals users and trips; an exception of a loader ends the run.
StartRun(s) ==
  /\ run[s].pc = "idle"
  /\ ops < MaxRuns
  /\ ops' = ops + 1
  /\ LET lu == load_users(users_file)
         lt == load_trips(trips_file)
     IN  IF lu.raised
         THEN /\ outcome' = [outcome EXCEPT ![s] = Report("load_users", "", lu.exc)]
              /\ UNCHANGED run
         ELSE IF lt.raised
         THEN /\ outcome' = [outcome EXCEPT ![s] = Report("load_trips", "", lt.exc)]
              /\ UNCHANGED run
         ELSE /\ run' = [run EXCEPT ![s] =
                          [pc |-> "loaded", users |-> lu.value, trips |-> lt.value]]
              /\ UNCHANGED outcome
  /\ UNCHANGED <<users_file, trips_file, session, call>>

\* Lines 281-285: the Logout button of the sidebar.
Logout(s) ==
  /\ Loaded(s) /\ session[s].logged_in
  /\ session' = [session EXCEPT ![s] = LoggedOut]
  /\ EndRun(s, "logout", session[s].username, "rerun")
  /\ UNCHANGED <<users_file, trips_file, ops, call>>

pic_path(username) == <<"profile_pics/", username, ".png">>

\* The Sign Up button without the test new_user in users of line 322.
SignUpOverwrite(s, new_user, new_pass, profile_image, salt) ==
  /\ Loaded(s) /\ ~session[s].logged_in
  /\ LET users == run[s].users
     IN  IF new_user = "" \/ new_pass = <<>>
         THEN /\ EndRun(s, "sign_up", new_user, "Please enter both username and password.")
              /\ UNCHANGED users_file
         ELSE /\ users_file' = save_users(py_setitem(users, new_user,
                   [password |-> PyStr(hash_password(new_pass, salt)),
                    profile_pic |-> IF profile_image THEN PyStr(pic_path(new_user))
                                    ELSE PyNone,
                    role |-> PyStr(s_user),
                    bio |-> PyStr(<<>>),
                    favorite_destination |-> PyStr(<<>>),
                    goals |-> PyStr(<<>>)]))
              /\ EndRun(s, "sign_up", new_user, "Account created successfully!")
  /\ UNCHANGED <<trips_file, session, ops, call>>

\* Lines 321-341: the Sign Up button.
SignUp(s, new_user, new_pass, profile_image, salt) ==
  /\ Loaded(s) /\ ~session[s].logged_in
  /\ LET users == run[s].users
     IN  IF new_user \in DOMAIN users
         THEN /\ EndRun(s, "sign_up", new_user, "Username already exists.")
              /\ UNCHANGED users_file
         ELSE IF new_user = "" \/ new_pass = <<>>
         THEN /\ EndRun(s, "sign_up", new_user, "Please enter both username and password.")
              /\ UNCHANGED users_file
         ELSE /\ users_file' = save_users(py_setitem(users, new_user,
                   [password |-> PyStr(hash_password(new_pass, salt)),
                    profile_pic |-> IF profile_image THEN PyStr(pic_path(new_user))
                                    ELSE PyNone,
                    role |-> PyStr(s_user),
                    bio |-> PyStr(<<>>),
                    favorite_destination |-> PyStr(<<>>),
                    goals |-> PyStr(<<>>)]))
              /\ EndRun(s, "sign_up", new_user, "Account created successfully!")
  /\ UNCHANGED <<trips_file, session, ops, call>>

\* Lines 360-370: the Login button.  check_password is only called for a
\* known username; its exception ends the run.
Login(s, username, password) ==
  /\ Loaded(s) /\ ~session[s].logged_in
  /\ LET users == run[s].users
         checked == IF username \in DOMAIN users
                    THEN check_password(password, users[username].password.v)
                    ELSE Returned(FALSE)
     IN  IF checked.raised
         THEN /\ EndRun(s, "login", username, checked.exc)
              /\ UNCHANGED session
         ELSE IF checked.value
         THEN /\ session' = [session EXCEPT ![s] =
                   [logged_in |-> TRUE, username |-> username,
                    role |-> py_get(users[username], "role", PyStr(s_user)).v]]
              /\ EndRun(s, "login", username, "Welcome")
         ELSE /\ EndRun(s, "login", username, "Invalid credentials.")
              /\ UNCHANGED session
  /\ UNCHANGED <<users_file, trips_file, ops, call>>

\* The pages whose code starts with users[username], lines 375, 428 and 777.
PagesReadingUser == {"Home", "Dashboard", "Edit Profile"}

Pages ==
  {"Home", "Dashboard", "Insights", "Trip Planner", "Map", "Edit Profile",
   "Settings", "Contact", "Chatbot"}

\* A run that renders a page of the logged-in menu with no button pressed.
ViewPage(s, menu) ==
  /\ Loaded(s) /\ session[s].logged_in
  /\ LET users == run[s].users
         user_trips == py_get(run[s].trips, session[s].username, <<>>)
     IN  IF menu \in PagesReadingUser /\ session[s].username \notin DOMAIN users
         THEN EndRun(s, menu, session[s].username, "KeyError")
         ELSE IF menu = "Insights" /\ insights_summary(user_trips).raised
         THEN EndRun(s, menu, session[s].username, insights_summary(user_trips).exc)
         ELSE IF menu = "Trip Planner"
         THEN EndRunWith(s, menu, session[s].username, "rendered", user_trips)
         ELSE EndRun(s, menu, session[s].username, "rendered")
  /\ UNCHANGED <<users_file, trips_file, session, ops, call>>

\* What the Trip Planner form holds when Save Trip is pressed.
t_48_85 == <<"4","8",".","8","5">>
t_2_35 == <<"2",".","3","5">>
t_abc == <<"a","b","c">>

TripForms ==
  { [destination |-> d_Paris, lat_input |-> t_48_85, lon_input |-> t_2_35],
    [destination |-> d_Tokyo, lat_input |-> <<>>, lon_input |-> <<>>],
    [destination |-> d_Tokyo, lat_input |-> t_abc, lon_input |-> t_2_35],
    [destination |-> <<>>, lat_input |-> <<>>, lon_input |-> <<>>] }

\* Lines 571-577: both coordinates, or neither when a float() raises.
parse_coords(lat_input, lon_input) ==
  LET raises(x) == x # <<>> /\ float_of_str(x).raised
      leaf(x) == IF x = <<>> THEN PyNone ELSE PyFloat(float_of_str(x).value)
  IN  IF raises(lat_input) \/ raises(lon_input) THEN <<PyNone, PyNone>>
      ELSE <<leaf(lat_input), leaf(lon_input)>>

\* Save Trip that reads trips.json again before it appends, instead of using
\* the trips the run loaded at its start.
SaveTripFresh(s, form) ==
  /\ Loaded(s) /\ session[s].logged_in
  /\ LET username == session[s].username
         trips == load_trips(trips_file).value
         user_trips == py_get(trips, username, <<>>)
         coords == parse_coords(form.lat_input, form.lon_input)
     IN  /\ ~load_trips(trips_file).raised
         /\ Len(user_trips) < MaxTrips
         /\ IF form.destination # <<>>
            THEN /\ trips_file' = save_trips(py_setitem(trips, username,
                      Append(user_trips,
                             new_trip(form.destination, d_2025_06_03, d_2025_06_05,
                                      <<>>, coords[1], coords[2]))))
                 /\ EndRun(s, "save_trip", username, "saved")
            ELSE /\ EndRun(s, "save_trip", username, "Please enter a destination.")
                 /\ UNCHANGED trips_file
  /\ UNCHANGED <<users_file, session, ops, call>>

\* Lines 569-596: the Save Trip button.
SaveTrip(s, form) ==
  /\ Loaded(s) /\ session[s].logged_in
  /\ LET username == session[s].username
         trips == run[s].trips
         user_trips == py_get(trips, username, <<>>)
         coords == parse_coords(form.lat_input, form.lon_input)
     IN  /\ Len(user_trips) < MaxTrips
         /\ IF form.destination # <<>>
            THEN /\ trips_file' = save_trips(py_setitem(trips, username,
                      Append(user_trips,
                             new_trip(form.destination, d_2025_06_03, d_2025_06_05,
                                      <<>>, coords[1], coords[2]))))
                 /\ EndRun(s, "save_trip", username, "saved")
            ELSE /\ EndRun(s, "save_trip", username, "Please enter a destination.")
                 /\ UNCHANGED trips_file
  /\ UNCHANGED <<users_file, session, ops, call>>

\* The trips the Trip Planner listed in the last run of session s: the rows
\* whose buttons the user can press.
Shown(s) == IF outcome[s].op = "Trip Planner" THEN outcome[s].detail ELSE <<>>

\* l[i] = v with the 0-based index i, as the list it leaves behind.
py_setindex(l, i, v) == [l EXCEPT ![i + 1] = v]

\* Lines 635-637 and their like: trips[username] = user_trips,
\* save_trips(trips), st.rerun().
SaveUserTrips(s, op, user_trips, detail) ==
  /\ trips_file' = save_trips(py_setitem(run[s].trips, session[s].username, user_trips))
  /\ EndRunWith(s, op, session[s].username, "rerun", detail)

\* Lines 598-729 with no button of this run pressed: the list is rendered.
\* This is also the run of a press whose key names no widget of this run,
\* because the row is no longer in the list the run loaded.
RenderPlanner(s, message, user_trips) ==
  /\ EndRunWith(s, "Trip Planner", session[s].username, message, user_trips)
  /\ UNCHANGED trips_file

\* Lines 633-637: the Delete Trip button with key del_trip_i, pressed on the
\* list the session was shown; the run it starts has loaded the files anew.
DeleteTrip(s, i) ==
  /\ Loaded(s) /\ session[s].logged_in
  /\ i < Len(Shown(s))
  /\ LET user_trips == py_get(run[s].trips, session[s].username, <<>>)
     IN  IF i < Len(user_trips)
         THEN SaveUserTrips(s, "delete_trip", py_pop(user_trips, i), <<i>>)
         ELSE RenderPlanner(s, "rendered", user_trips)
  /\ UNCHANGED <<users_file, session, ops, call>>

\* Lines 645-653: the Add button of the checklist of trip i.
AddChecklistItem(s, i, new_item_text) ==
  /\ Loaded(s) /\ session[s].logged_in
  /\ i < Len(Shown(s))
  /\ LET user_trips == py_get(run[s].trips, session[s].username, <<>>)
         trip == user_trips[i + 1]
         item == [text |-> PyStr(str_strip(new_item_text)), done |-> PyBool(FALSE)]
     IN  IF i >= Len(user_trips) THEN RenderPlanner(s, "rendered", user_trips)
         ELSE IF str_strip(new_item_text) # <<>>
         THEN SaveUserTrips(s, "add_checklist_item",
                py_setindex(user_trips, i,
                            [trip EXCEPT !.checklist = Append(@, item)]), <<i>>)
         ELSE RenderPlanner(s, "Please type an item first.", user_trips)
  /\ UNCHANGED <<users_file, session, ops, call>>

\* The checklist row j of trip i is in the list that was shown.
ShownItem(s, i, j) ==
  /\ i < Len(Shown(s))
  /\ j < Len(Shown(s)[i + 1].checklist)

\* Lines 657-662: the checkbox of checklist item j of trip i was flipped; the
\* run saves when the box differs from the stored item and renders on.
ToggleChecklistItem(s, i, j) ==
  /\ Loaded(s) /\ session[s].logged_in
  /\ ShownItem(s, i, j)
  /\ LET user_trips == py_get(run[s].trips, session[s].username, <<>>)
         new_done == PyBool(~py_get(Shown(s)[i + 1].checklist[j + 1], "done",
                                    PyBool(FALSE)).v)
         trip == user_trips[i + 1]
         item == trip.checklist[j + 1]
         flipped == py_setindex(user_trips, i,
                      [trip EXCEPT !.checklist =
                         py_setindex(@, j, py_setitem(item, "done", new_done))])
     IN  IF i >= Len(user_trips) \/ j >= Len(user_trips[i + 1].checklist)
         THEN RenderPlanner(s, "rendered", user_trips)
         ELSE IF new_done # py_get(item, "done", PyBool(FALSE))
         THEN /\ trips_file' = save_trips(py_setitem(run[s].trips,
                                                    session[s].username, flipped))
              /\ EndRunWith(s, "Trip Planner", session[s].username, "rendered", flipped)
         ELSE RenderPlanner(s, "rendered", user_trips)
  /\ UNCHANGED <<users_file, session, ops, call>>

\* Lines 663-669: the Save button of checklist item j of trip i.
EditChecklistItem(s, i, j, edited) ==
  /\ Loaded(s) /\ session[s].logged_in
  /\ ShownItem(s, i, j)
  /\ LET user_trips == py_get(run[s].trips, session[s].username, <<>>)
         trip == user_trips[i + 1]
         item == trip.checklist[j + 1]
         text == IF str_strip(edited) # <<>> THEN PyStr(str_strip(edited))
                 ELSE item.text
     IN  IF i >= Len(user_trips) \/ j >= Len(user_trips[i + 1].checklist)
         THEN RenderPlanner(s, "rendered", user_trips)
         ELSE SaveUserTrips(s, "edit_checklist_item",
                py_setindex(user_trips, i,
                  [trip EXCEPT !.checklist =
                     py_setindex(@, j, py_setitem(item, "text", text))]), <<i, j>>)
  /\ UNCHANGED <<users_file, session, ops, call>>

\* Lines 670-675: the delete button of checklist item j of trip i.
DeleteChecklistItem(s, i, j) ==
  /\ Loaded(s) /\ session[s].logged_in
  /\ ShownItem(s, i, j)
  /\ LET user_trips == py_get(run[s].trips, session[s].username, <<>>)
         trip == user_trips[i + 1]
     IN  IF i >= Len(user_trips) \/ j >= Len(user_trips[i + 1].checklist)
         THEN RenderPlanner(s, "rendered", user_trips)
         ELSE SaveUserTrips(s, "delete_checklist_item",
                py_setindex(user_trips, i,
                            [trip EXCEPT !.checklist = py_pop(@, j)]), <<i, j>>)
  /\ UNCHANGED <<users_file, session, ops, call>>

\* Lines 682-696: the Add Expense button of trip i; amount is what
\* st.number_input holds, in hundredths.
AddExpense(s, i, desc, amount) ==
  /\ Loaded(s) /\ session[s].logged_in
  /\ i < Len(Shown(s))
  /\ LET user_trips == py_get(run[s].trips, session[s].username, <<>>)
         trip == user_trips[i + 1]
         expense == [category |-> PyStr(c_Food), description |-> PyStr(desc),
                     amount |-> PyFloat(amount)]
     IN  IF i >= Len(user_trips) THEN RenderPlanner(s, "rendered", user_trips)
         ELSE IF desc # <<>> /\ amount > 0
         THEN SaveUserTrips(s, "add_expense",
                py_setindex(user_trips, i,
                            [trip EXCEPT !.expenses = Append(@, expense)]), <<i>>)
         ELSE RenderPlanner(s, "Enter a description and amount.", user_trips)
  /\ UNCHANGED <<users_file, session, ops, call>>

\* Lines 725-729: the Delete button of expense j of trip i.  (The Save Changes
\* button of lines 717-724 sits inside the block of the Edit button, which is
\* False again in the run that a press of Save Changes starts: that block
\* never runs, and an expense is never edited.)
DeleteExpense(s, i, j) ==
  /\ Loaded(s) /\ session[s].logged_in
  /\ i < Len(Shown(s))
  /\ j < Len(Shown(s)[i + 1].expenses)
  /\ LET user_trips == py_get(run[s].trips, session[s].username, <<>>)
         trip == user_trips[i + 1]
     IN  IF i >= Len(user_trips) \/ j >= Len(user_trips[i + 1].expenses)
         THEN RenderPlanner(s, "rendered", user_trips)
         ELSE SaveUserTrips(s, "delete_expense",
                py_setindex(user_trips, i,
                            [trip EXCEPT !.expenses = py_pop(@, j)]), <<i, j>>)
  /\ UNCHANGED <<users_file, session, ops, call>>

\* Lines 789-798: the Update Profile Picture button of Edit Profile; line
\* 777 has read users[username] before.
UpdateProfilePicture(s, new_profile_image) ==
  /\ Loaded(s) /\ session[s].logged_in
  /\ LET username == session[s].username
         users == run[s].users
     IN  IF username \notin DOMAIN users
         THEN /\ EndRun(s, "Edit Profile", username, "KeyError")
              /\ UNCHANGED users_file
         ELSE IF new_profile_image
         THEN /\ users_file' = save_users(
                   [users EXCEPT ![username].profile_pic = PyStr(pic_path(username))])
              /\ EndRun(s, "update_picture", username, "Profile Picture Updated!")
         ELSE /\ EndRun(s, "update_picture", username, "Please upload an image.")
              /\ UNCHANGED users_file
  /\ UNCHANGED <<trips_file, session, ops, call>>

t_hiker == <<" ","h","i","k","e","r"," ">>

\* What the Profile Customization form holds when Save Profile is pressed.
ProfileForms ==
  { [bio |-> t_hiker, fav_dest |-> d_Tokyo, goals |-> <<>>] }

\* Lines 808-813: the Save Profile button of Edit Profile.
SaveProfile(s, form) ==
  /\ Loaded(s) /\ session[s].logged_in
  /\ LET username == session[s].username
         users == run[s].users
     IN  IF username \notin DOMAIN users
         THEN /\ EndRun(s, "Edit Profile", username, "KeyError")
              /\ UNCHANGED users_file
         ELSE /\ users_file' = save_users(
                   [users EXCEPT ![username].bio = PyStr(str_strip(form.bio)),
                                 ![username].favorite_destination =
                                     PyStr(str_strip(form.fav_dest)),
                                 ![username].goals = PyStr(str_strip(form.goals))])
              /\ EndRun(s, "save_profile", username, "Profile details saved!")
  /\ UNCHANGED <<trips_file, session, ops, call>>

\* Lines 831-835: the Update Password button of Settings.
UpdatePassword(s, new_pass, salt) ==
  /\ Loaded(s) /\ session[s].logged_in
  /\ LET username == session[s].username
         users == run[s].users
     IN  IF new_pass = <<>>
         THEN /\ EndRun(s, "update_password", username, "rendered")
              /\ UNCHANGED users_file
         ELSE IF username \notin DOMAIN users
         THEN /\ EndRun(s, "update_password", username, "KeyError")
              /\ UNCHANGED users_file
         ELSE /\ users_file' = save_users(
                   [users EXCEPT ![username].password =
                                     PyStr(hash_password(new_pass, salt))])
              /\ EndRun(s, "update_password", username, "Password updated successfully!")
  /\ UNCHANGED <<trips_file, session, ops, call>>

\* Line 857: the Admin Panel is the page of a logged-in session whose role
\* is admin.
AdminPanel(s) ==
  Loaded(s) /\ session[s].logged_in /\ session[s].role = s_admin

\* The "Switch as <user>" button without line 868: the role of the session
\* stays what it was.
AdminSwitchKeepRole(s, user) ==
  /\ AdminPanel(s)
  /\ user \in DOMAIN run[s].users
  /\ session' = [session EXCEPT ![s].username = user]
  /\ EndRun(s, "admin_switch", user, "rerun")
  /\ UNCHANGED <<users_file, trips_file, ops, call>>

\* Lines 866-869: the "Switch as <user>" button of the Admin Panel.
AdminSwitch(s, user) ==
  /\ AdminPanel(s)
  /\ user \in DOMAIN run[s].users
  /\ session' = [session EXCEPT
       ![s].username = user,
       ![s].role = py_get(run[s].users[user], "role", PyStr(s_user)).v]
  /\ EndRun(s, "admin_switch", user, "rerun")
  /\ UNCHANGED <<users_file, trips_file, ops, call>>

\* Lines 871-875: the "Reset Pic <user>" button of the Admin Panel.
AdminResetPic(s, user) ==
  /\ AdminPanel(s)
  /\ user \in DOMAIN run[s].users
  /\ users_file' = save_users([run[s].users EXCEPT ![user].profile_pic = PyNone])
  /\ EndRun(s, "admin_reset_pic", user, "Profile picture reset")
  /\ UNCHANGED <<trips_file, session, ops, call>>

\* What a file is left holding when something outside the app damages it.
DamagedFiles == {FileNotJson, FileNotText}

\* users.json is damaged from outside the app.
DamageUsersFile ==
  /\ users_file.kind = "json"
  /\ users_file' \in DamagedFiles
  /\ UNCHANGED <<trips_file, session, run, outcome, ops, call>>

\* trips.json is damaged from outside the app.
DamageTripsFile ==
  /\ trips_file.kind = "json"
  /\ trips_file' \in DamagedFiles
  /\ UNCHANGED <<users_file, session, run, outcome, ops, call>>

\* The account side of the app: every handler that reads or writes users.json
\* or the session state.  No handler of this side touches trips.json.
NextAccounts ==
  \/ \E s \in Sessions : StartRun(s)
  \/ \E s \in Sessions : Logout(s)
  \/ \E s \in Sessions, new_user \in Users \cup {""}, new_pass \in {p_pw1, <<>>},
        profile_image \in BOOLEAN, salt \in Salts :
       SignUp(s, new_user, new_pass, profile_image, salt)
  \/ \E s \in Sessions, username \in Users, password \in {p_pw1, p_pw2} :
       Login(s, username, password)
  \/ \E s \in Sessions, menu \in Pages : ViewPage(s, menu)
  \/ \E s \in Sessions, img \in BOOLEAN : UpdateProfilePicture(s, img)
  \/ \E s \in Sessions, form \in ProfileForms : SaveProfile(s, form)
  \/ \E s \in Sessions, new_pass \in {p_pw2, <<>>}, salt \in Salts :
       UpdatePassword(s, new_pass, salt)
  \/ \E s \in Sessions, user \in Users : AdminSwitch(s, user)
  \/ \E s \in Sessions, user \in Users : AdminResetPic(s, user)
  \/ DamageUsersFile

\* The handlers of the account side alone: users.json is written by the app
\* only.
NextAccountsInApp ==
  \/ \E s \in Sessions : StartRun(s)
  \/ \E s \in Sessions : Logout(s)
  \/ \E s \in Sessions, new_user \in Users \cup {""}, new_pass \in {p_pw1, <<>>},
        profile_image \in BOOLEAN, salt \in Salts :
       SignUp(s, new_user, new_pass, profile_image, salt)
  \/ \E s \in Sessions, username \in Users, password \in {p_pw1, p_pw2} :
       Login(s, username, password)
  \/ \E s \in Sessions, menu \in Pages : ViewPage(s, menu)
  \/ \E s \in Sessions, img \in BOOLEAN : UpdateProfilePicture(s, img)
  \/ \E s \in Sessions, form \in ProfileForms : SaveProfile(s, form)
  \/ \E s \in Sessions, new_pass \in {p_pw2, <<>>}, salt \in Salts :
       UpdatePassword(s, new_pass, salt)
  \/ \E s \in Sessions, user \in Users : AdminSwitch(s, user)
  \/ \E s \in Sessions, user \in Users : AdminResetPic(s, user)

InitAccounts == InitApp /\ call = [fn |-> "none"]

SpecAccountsInApp == InitAccounts /\ [][NextAccountsInApp]_vars

SpecAccounts == InitAccounts /\ [][NextAccounts]_vars

\* users.json after alice and bob have signed up.
signed_up_user(password, salt) ==
  upgraded_user(PyStr(hash_password(password, salt)))

TwoAccountsFile ==
  save_users([u \in Users |-> signed_up_user(p_pw1, "salt1")])

\* users.json with records that lack fields or carry a field of their own:
\* alice has a password and the role admin only, bob has a bio and a theme.
PartialUsersFile ==
  FileJson(JObj([u \in Users |->
    IF u = "alice"
    THEN JObj([k \in {"password", "role"} |->
                 IF k = "role" THEN JStr(s_admin)
                 ELSE JStr(hash_password(p_pw1, "salt1"))])
    ELSE JObj([k \in {"password", "bio", "theme"} |->
                 IF k = "password" THEN JStr(hash_password(p_pw2, "salt2"))
                 ELSE JStr(t_hiker)])]))

\* trips.json with two trips of alice, the first with an expense and a
\* checklist item.
PlannedTripsFile ==
  save_trips([u \in {"alice"} |->
    <<[new_trip(d_Paris, d_2025_06_03, d_2025_06_05, <<>>, PyNone, PyNone)
         EXCEPT !.expenses = <<Expense(PyFloat(1050))>>,
                !.checklist = <<[text |-> PyStr(t_x), done |-> PyBool(FALSE)]>>],
      new_trip(d_Tokyo, d_2025_06_03, d_2025_06_05, <<>>, PyNone, PyNone)>>])

\* trips.json as an older version of the app left it: bob has a trip with the
\* fields of that version only.
OldSchemaTripsFile ==
  FileJson(JObj([u \in {"bob"} |->
    JArr(<<JObj([k \in {"destination", "notes"} |->
                   IF k = "destination" THEN JStr(d_Lyon) ELSE JStr(t_x)])>>)]))

LoggedInAs(u) == [logged_in |-> TRUE, username |-> u, role |-> s_user]

\* The trip side of the app starts where the account side can leave it: both
\* accounts exist and both sessions are logged in, as the same user or as two.
InitTrips ==
  /\ users_file = TwoAccountsFile
  /\ trips_file \in {FileAbsent, OldSchemaTripsFile, PlannedTripsFile}
  /\ session \in {[s \in Sessions |-> LoggedInAs(IF s = "s1" THEN "alice" ELSE u)] :
                    u \in Users}
  /\ run = [s \in Sessions |-> Idle]
  /\ outcome = [s \in Sessions |->
       ReportWith("Trip Planner", session[s].username, "rendered",
                  py_get(load_trips(trips_file).value, session[s].username, <<>>))]
  /\ ops = 0

\* A run of the trip side starts, lines 263-270.
StartPlannerRun(s) == ops < MaxPlannerRuns /\ StartRun(s)

\* The trip side of the app: every handler that reads or writes trips.json.
\* No handler of this side touches users.json or the session state.
NextTrips ==
  \/ \E s \in Sessions : StartPlannerRun(s)
  \/ \E s \in Sessions, menu \in Pages : ViewPage(s, menu)
  \/ \E s \in Sessions, form \in TripForms : SaveTrip(s, form)
  \/ \E s \in Sessions, i \in 0..(MaxTrips - 1) : DeleteTrip(s, i)
  \/ \E s \in Sessions, i \in 0..(MaxTrips - 1), text \in {t_hiker, <<" ">>} :
       AddChecklistItem(s, i, text)
  \/ \E s \in Sessions, i \in 0..(MaxTrips - 1), j \in 0..(MaxItems - 1) :
       ToggleChecklistItem(s, i, j)
  \/ \E s \in Sessions, i \in 0..(MaxTrips - 1), j \in 0..(MaxItems - 1),
        edited \in {t_hiker, <<>>} :
       EditChecklistItem(s, i, j, edited)
  \/ \E s \in Sessions, i \in 0..(MaxTrips - 1), j \in 0..(MaxItems - 1) :
       DeleteChecklistItem(s, i, j)
  \/ \E s \in Sessions, i \in 0..(MaxTrips - 1), amount \in {0, 750} :
       AddExpense(s, i, t_x, amount)
  \/ \E s \in Sessions, i \in 0..(MaxTrips - 1), j \in 0..(MaxItems - 1) :
       DeleteExpense(s, i, j)
  \/ DamageTripsFile

InitTripPlanner == InitTrips /\ call = [fn |-> "none"]

SpecTrips == InitTripPlanner /\ [][NextTrips]_vars

\* ------------------------------------------------------- function calls
\* A call waiting to be made: the function and its argument.
Pending(fn, arg) == [fn |-> fn, arg |-> arg, done |-> FALSE]

CallBadge ==
  /\ call.fn = "get_user_badge" /\ ~call.done
  /\ call' = [call EXCEPT !.done = TRUE] @@ [res |-> get_user_badge(call.arg)]
  /\ UNCHANGED appvars

CallCoords ==
  /\ call.fn = "fallback_coords_for_destination" /\ ~call.done
  /\ call' = [call EXCEPT !.done = TRUE]
               @@ [res |-> fallback_coords_for_destination(call.arg)]
  /\ UNCHANGED appvars

\* One run of the Insights summary over a user's trips.
CallInsights ==
  /\ call.fn = "insights" /\ ~call.done
  /\ call' = [call EXCEPT !.done = TRUE] @@ [res |-> insights_summary(call.arg)]
  /\ UNCHANGED appvars

\* load_trips() with trips.json holding the given content.
CallLoadTrips ==
  /\ call.fn = "load_trips" /\ ~call.done
  /\ call' = [call EXCEPT !.done = TRUE] @@ [res |-> load_trips(call.arg)]
  /\ UNCHANGED appvars

\* load_users() with users.json holding the given content.
CallLoadUsers ==
  /\ call.fn = "load_users" /\ ~call.done
  /\ call' = [call EXCEPT !.done = TRUE] @@ [res |-> load_users(call.arg)]
  /\ UNCHANGED appvars

\* save_trips(T), load_trips(), save_trips of what was loaded, load_trips().
CallRoundTrip ==
  /\ call.fn = "round_trip" /\ ~call.done
  /\ LET file1 == save_trips(call.arg)
         loaded1 == load_trips(file1)
         file2 == save_trips(loaded1.value)
         loaded2 == load_trips(file2)
     IN  call' = [call EXCEPT !.done = TRUE]
                   @@ [file1 |-> file1, loaded1 |-> loaded1,
                       file2 |-> file2, loaded2 |-> loaded2]
  /\ UNCHANGED appvars

\* trigger_reminders("alice", {"alice": user_trips}) on the given day.
CallReminders ==
  /\ call.fn = "trigger_reminders" /\ ~call.done
  /\ call' = [call EXCEPT !.done = TRUE]
               @@ [res |-> trigger_reminders("alice",
                              [u \in {"alice"} |-> call.arg.user_trips],
                              call.arg.today)]
  /\ UNCHANGED appvars

\* The calls that are made, one per behaviour: the function and the argument
\* it is given.
InitPure ==
  /\ InitApp
  /\ users_file = FileAbsent
  /\ \/ \E n \in TripCounts : call = Pending("get_user_badge", n)
     \/ \E d \in CoordInputs : call = Pending("fallback_coords_for_destination", d)
     \/ \E k \in 0..MaxInsightTrips : \E ut \in [1..k -> InsightTrips] :
          call = Pending("insights", ut)
     \/ \E f \in NoObjectFiles \cup MisshapenTripsFiles : call = Pending("load_trips", f)
     \/ \E T \in TripMappings(Users) :
          call \in {Pending("load_trips", save_trips(T)), Pending("round_trip", T)}
     \/ \E f \in NoObjectFiles \cup MisshapenUsersFiles
                   \cup {LegacyUsersFile, TwoAccountsFile, PartialUsersFile} :
          call = Pending("load_users", f)
     \/ \E td \in Todays, k \in 0..MaxReminderTrips : \E ut \in [1..k -> ReminderTrips] :
          call = Pending("trigger_reminders", [today |-> td, user_trips |-> ut])

NextPure ==
  \/ CallBadge
  \/ CallCoords
  \/ CallInsights
  \/ CallLoadTrips
  \/ CallLoadUsers
  \/ CallRoundTrip
  \/ CallReminders

SpecPure == InitPure /\ [][NextPure]_vars

\* ----------------------------------------------------------------- properties
Min(S) == CHOOSE x \in S : \A y \in S : x <= y

\* The tier table as the specification lists it.
SpecTiers ==
  << <<"New Traveler", 0>>, <<"Explorer", 1>>, <<"Adventurer", 3>>,
     <<"Globetrotter", 6>>, <<"World Citizen", 10>> >>

\* The highest tier whose threshold is <= n, with the threshold of the tier
\* above it.
HighestTier(n) ==
  LET idx == CHOOSE i \in 1..Len(SpecTiers) :
               /\ SpecTiers[i][2] <= n
               /\ \A k \in 1..Len(SpecTiers) : SpecTiers[k][2] <= n => k <= i
  IN  <<SpecTiers[idx][1], idx - 1,
        IF idx < Len(SpecTiers) THEN <<SpecTiers[idx + 1][2]>> ELSE None>>

\* C1: for every trip count n >= 0, get_user_badge(n) is the name and index of
\* the highest tier whose threshold is <= n, with the threshold of the next
\* tier, or None at the last tier; get_user_badge(0) = (New Traveler, 0, 1),
\* get_user_badge(3) = (Adventurer, 2, 6), get_user_badge(10) =
\* get_user_badge(999) = (World Citizen, 4, None).
C1_BadgeIsHighestTier ==
  (call.fn = "get_user_badge" /\ call.done) =>
    /\ call.res = HighestTier(call.arg)
    /\ call.arg = 0 => call.res = <<"New Traveler", 0, <<1>> >>
    /\ call.arg = 3 => call.res = <<"Adventurer", 2, <<6>> >>
    /\ call.arg \in {10, 999} => call.res = <<"World Citizen", 4, None>>

C1_Witness ==
  /\ call.fn = "get_user_badge" /\ call.done
  /\ call.arg = 999
  /\ call.res = <<"World Citizen", 4, None>>

CoordsCall == call.fn = "fallback_coords_for_destination" /\ call.done

\* The coordinates of a table key.
CentroidOf(k) ==
  FALLBACK_CENTROIDS[CHOOSE i \in 1..Len(FALLBACK_CENTROIDS) :
                       FALLBACK_CENTROIDS[i][1] = k][2]

\* C2 as stated: fallback_coords_for_destination("Paris, France") is the
\* "paris" entry of the table, not the "france" entry.
C2_ParisFranceIsParis ==
  (CoordsCall /\ call.arg = d_Paris_France) => call.res = <<4885, 235>>

\* C2 as amended: the result is the entry of the first table key, in table
\* order, that is a substring of the trimmed lower-cased input, and None when
\* no key is; for "Paris, France" that is the "france" entry, which comes
\* before "paris" in the table.
C2_FirstMatchInTableOrder ==
  CoordsCall =>
    LET key == str_lower(str_strip(call.arg))
        hits == {i \in 1..Len(FALLBACK_CENTROIDS) :
                   str_contains(FALLBACK_CENTROIDS[i][1], key)}
    IN  /\ hits = {} => call.res = None
        /\ hits # {} => call.res = FALLBACK_CENTROIDS[Min(hits)][2]
        /\ call.arg = d_Paris_France => call.res = <<4620, 220>>
        /\ call.arg = d_Tokyo_Japan => call.res = CentroidOf(s_japan)
        /\ call.arg = d_Busan => call.res = CentroidOf(s_usa)
        /\ call.arg = d_Lyon => call.res = None

C2_Witness ==
  CoordsCall /\ call.arg = d_Paris_France /\ call.res = CentroidOf(s_france)

InsightsCall == call.fn = "insights" /\ call.done

\* An amount as the specification counts it: a number as itself (a numeric
\* string as the number it spells), a missing or non-numeric amount as 0.
AmountOrZero(e) ==
  IF "amount" \notin DOMAIN e THEN 0
  ELSE IF e.amount.t = "float" THEN e.amount.v
  ELSE IF e.amount.t = "str" /\ ~float_of_str(e.amount.v).raised
       THEN float_of_str(e.amount.v).value
  ELSE 0

RECURSIVE SumSeq(_)
SumSeq(s) == IF s = <<>> THEN 0 ELSE Head(s) + SumSeq(Tail(s))

SumOfAmounts(user_trips) ==
  SumSeq([i \in 1..Len(user_trips) |->
            SumSeq([j \in 1..Len(user_trips[i].expenses) |->
                      AmountOrZero(user_trips[i].expenses[j])])])

\* C3: total_expenses is the sum of every expense amount of every trip, a
\* missing or non-numeric amount counting as 0 without an exception; the
\* amounts 10.50, 5 and "bad" sum to 15.50.
C3_TotalExpensesSkipsBadAmounts ==
  InsightsCall =>
    /\ ~call.res.raised
    /\ call.res.value.total_expenses = SumOfAmounts(call.arg)
    /\ (Len(call.arg) = 1 /\ call.arg[1].expenses = ExpensesWithBad)
         => call.res.value.total_expenses = 1550

AllTripFields ==
  {"destination", "start_date", "end_date", "notes", "expenses", "checklist",
   "lat", "lon"}

\* Every trip of the mapping has every field.
WellFormedTrips(T) ==
  \A u \in DOMAIN T : \A i \in 1..Len(T[u]) : DOMAIN T[u][i] = AllTripFields

\* C9: for a well-formed trip mapping T, save_trips(T), load_trips() and
\* save_trips of the loaded value leave a document that is the first one and
\* that reads back as T; load_trips of a document that load_trips produced
\* (from any stored mapping) returns the same value again.
C9_SaveLoadSaveRoundTrip ==
  (call.fn = "round_trip" /\ call.done) =>
    /\ ~call.loaded1.raised /\ ~call.loaded2.raised
    /\ call.loaded2 = call.loaded1
    /\ WellFormedTrips(call.loaded1.value)
    /\ WellFormedTrips(call.arg) =>
         /\ call.file2 = call.file1
         /\ call.loaded1.value = call.arg
         /\ py_of_json(call.file2.doc) = call.arg

C9_Witness ==
  /\ call.fn = "round_trip" /\ call.done
  /\ WellFormedTrips(call.arg)
  /\ "alice" \in DOMAIN call.arg
  /\ Len(call.arg["alice"]) = 2
  /\ call.arg["alice"][1].lat = PyFloat(4885)
  /\ call.arg["alice"][2].expenses # <<>>
  /\ call.file2 = call.file1

\* The destination of trip i, as stored.
RawDest(user_trips, i) == user_trips[i].destination.v

\* The destination of trip i with surrounding whitespace removed.
TrimmedDest(user_trips, i) == str_strip(user_trips[i].destination.v)

\* d is, among the destinations dest(1..n), one with the highest number of
\* occurrences, and of those the one that occurs first.
MostFrequentFirst(d, dest(_), n) ==
  LET count(x) == Cardinality({i \in 1..n : dest(i) = x})
      first(x) == Min({i \in 1..n : dest(i) = x})
  IN  /\ \E i \in 1..n : dest(i) = d
      /\ \A k \in 1..n :
           /\ count(dest(k)) <= count(d)
           /\ count(dest(k)) = count(d) => first(d) <= first(dest(k))

\* C10 as stated: most_visited is "—" for no trips and otherwise the stored
\* destination with the highest occurrence count, the earliest first
\* occurrence winning a tie.
C10_MostVisitedOfStoredNames ==
  (InsightsCall /\ ~call.res.raised) =>
    LET ut == call.arg
        dest(i) == RawDest(ut, i)
    IN  IF ut = <<>> THEN call.res.value.most_visited = EM_DASH
        ELSE MostFrequentFirst(call.res.value.most_visited, dest, Len(ut))

\* C10 as amended: destinations are compared, counted and returned with
\* their surrounding whitespace removed; "—" for no trips, and for
\* [Paris, Paris, Tokyo] the result is Paris.
C10_MostVisitedOfTrimmedNames ==
  (InsightsCall /\ ~call.res.raised) =>
    LET ut == call.arg
        dest(i) == TrimmedDest(ut, i)
    IN  /\ IF ut = <<>> THEN call.res.value.most_visited = EM_DASH
           ELSE MostFrequentFirst(call.res.value.most_visited, dest, Len(ut))
        /\ (Len(ut) = 3 /\ \A i \in 1..3 :
              RawDest(ut, i) = <<d_Paris, d_Paris, d_Tokyo>>[i])
             => call.res.value.most_visited = d_Paris

C10_Witness ==
  /\ InsightsCall /\ ~call.res.raised
  /\ Len(call.arg) = 3
  /\ RawDest(call.arg, 1) = d_Tokyo
  /\ RawDest(call.arg, 2) = d_Paris_sp
  /\ RawDest(call.arg, 3) = d_Paris
  /\ call.res.value.most_visited = d_Paris

ExceptionNames ==
  {"KeyError", "ValueError", "TypeError", "AttributeError", "UnicodeDecodeError"}

\* Session s ends its run in this step with the report of handler op.
Ends(s, op) ==
  /\ run[s].pc = "loaded" /\ run'[s].pc = "idle"
  /\ outcome'[s].op = op

\* C4: a login for a known username whose stored password is no bcrypt hash
\* (such as a legacy plain-text password that load_users upgraded into a
\* record) ends with "Invalid credentials." and the session logged out.
C4_MalformedHashIsInvalidCredentials ==
  [][\A s \in Sessions :
       (/\ Ends(s, "login")
        /\ outcome'[s].subject \in DOMAIN run[s].users
        /\ ~is_bcrypt_hash(run[s].users[outcome'[s].subject].password.v))
       => (/\ outcome'[s].result = "Invalid credentials."
           /\ ~session'[s].logged_in)]_vars

\* C5: a run that finds users.json or trips.json unparseable goes on with
\* empty state and completes the page it renders, also for a session that is
\* logged in: the load raises nothing and the page ends with no exception.
C5_CorruptFileRunCompletes ==
  [][\A s \in Sessions :
       /\ (/\ run[s].pc = "idle" /\ ops' = ops + 1
           /\ outcome'[s] # outcome[s] \/ run'[s] # run[s]
           /\ users_file.kind = "not_json" \/ trips_file.kind = "not_json")
          => (/\ run'[s].pc = "loaded"
              /\ users_file.kind = "not_json" => run'[s].users = <<>>
              /\ trips_file.kind = "not_json" => run'[s].trips = <<>>)
       /\ (/\ run[s].pc = "loaded" /\ run'[s].pc = "idle"
           /\ users_file.kind = "not_json" /\ run[s].users = <<>>)
          => outcome'[s].result \notin ExceptionNames]_vars

\* The content is not valid structured data for the loader: no text, no JSON,
\* or a JSON value of another shape than the mapping the loader expects.
NotValidStructuredData(fn, file) ==
  \/ file.kind \in {"not_json", "not_text"}
  \/ /\ file.kind = "json"
     /\ IF fn = "load_users" THEN ~users_doc_shape_ok(file.doc)
        ELSE ~trips_doc_shape_ok(file.doc)

\* C6: load_users and load_trips return an empty mapping and never raise,
\* both when the file is absent and when its content is not valid structured
\* data.
C6_LoadersReturnEmptyOnBadFile ==
  (call.fn \in {"load_users", "load_trips"} /\ call.done
   /\ (call.arg.kind = "absent" \/ NotValidStructuredData(call.fn, call.arg)))
  => call.res = Returned(<<>>)

\* The trips of user u in trips.json, when it holds a trips document.
StoredTripsOf(u) ==
  IF trips_file.kind = "json" /\ u \in DOMAIN trips_file.doc.members
  THEN py_of_json(trips_file.doc.members[u])
  ELSE <<>>

\* C7: the last save wins, silently: a Save Trip run reports "saved" and
\* leaves trips.json holding what the run itself loaded plus its own trip,
\* whatever another session has saved since the run loaded.
C7_LastWriteWins ==
  [][\A s \in Sessions :
       (Ends(s, "save_trip") /\ outcome'[s].result = "saved")
       => LET u == session[s].username
              mine == py_get(run[s].trips, u, <<>>)
          IN  /\ trips_file'.kind = "json"
              /\ DOMAIN trips_file'.doc.members = DOMAIN run[s].trips \cup {u}
              /\ \A v \in DOMAIN run[s].trips \ {u} :
                   py_of_json(trips_file'.doc.members[v]) = run[s].trips[v]
              /\ Len(py_of_json(trips_file'.doc.members[u])) = Len(mine) + 1
              /\ SubSeq(py_of_json(trips_file'.doc.members[u]), 1, Len(mine)) = mine]_vars

\* Both sessions, logged in as alice, have saved a trip with success in the
\* only two runs so far, and trips.json holds one trip of alice: the trip the
\* earlier run saved is lost.
C7_Witness ==
  /\ ops = 2
  /\ \A s \in Sessions :
       /\ session[s].username = "alice"
       /\ run[s].pc = "idle"
       /\ outcome[s] = Report("save_trip", "alice", "saved")
  /\ Len(StoredTripsOf("alice")) = 1

\* The usernames of users.json, when it holds a JSON object.
StoredUsernames(file) == DOMAIN file.doc.members

\* C8 as stated: no step of the app removes a username from the persisted
\* users mapping.
C8_NoStepRemovesAccount ==
  [][(users_file.kind = "json" /\ users_file'.kind = "json")
     => StoredUsernames(users_file) \subseteq StoredUsernames(users_file')]_vars

\* C8 as amended: every run that writes users.json writes every username it
\* loaded at its start; no handler removes a key of its users mapping.
C8_SaveKeepsLoadedAccounts ==
  [][\A s \in Sessions :
       (/\ run[s].pc = "loaded" /\ run'[s].pc = "idle"
        /\ users_file' # users_file)
       => (/\ users_file'.kind = "json"
           /\ DOMAIN run[s].users \subseteq StoredUsernames(users_file'))]_vars

\* Both signups succeeded one after the other and both accounts are stored.
C8_Witness ==
  /\ outcome["s1"] = Report("sign_up", "alice", "Account created successfully!")
  /\ outcome["s2"] = Report("sign_up", "bob", "Account created successfully!")
  /\ users_file.kind = "json"
  /\ StoredUsernames(users_file) = {"alice", "bob"}

RemindersCall == call.fn = "trigger_reminders" /\ call.done

\* The calendar day after d.
NextDay(d) ==
  LET last == IF d.month = 2
              THEN (IF d.year % 4 = 0 /\ (d.year % 100 # 0 \/ d.year % 400 = 0)
                    THEN 29 ELSE 28)
              ELSE IF d.month \in {4, 6, 9, 11} THEN 30 ELSE 31
  IN  IF d.day < last THEN [d EXCEPT !.day = d.day + 1]
      ELSE IF d.month < 12 THEN [d EXCEPT !.month = d.month + 1, !.day = 1]
      ELSE [year |-> d.year + 1, month |-> 1, day |-> 1]

RECURSIVE DaysAfter(_, _)
DaysAfter(d, k) == IF k = 0 THEN d ELSE DaysAfter(NextDay(d), k - 1)

Digit(n) == Digits[n + 1]

\* The texts the format YYYY-MM-DD reads as the date d: month and day with
\* two digits, or with one digit below 10 (the day also as a blank and one
\* digit).
WaysToWrite(d) ==
  LET Y == <<Digit(d.year \div 1000), Digit((d.year \div 100) % 10),
             Digit((d.year \div 10) % 10), Digit(d.year % 10)>>
      two(n) == <<Digit(n \div 10), Digit(n % 10)>>
      M == {two(d.month)} \cup (IF d.month < 10 THEN {<<Digit(d.month)>>} ELSE {})
      D == {two(d.day)}
             \cup (IF d.day < 10 THEN {<<Digit(d.day)>>, <<" ", Digit(d.day)>>} ELSE {})
  IN  {Y \o <<"-">> \o m \o <<"-">> \o dd : m \in M, dd \in D}

\* The numbers k in 0..3 for which trip t starts k days after today.
DaysUntilStart(t, today) ==
  {k \in 0..3 : /\ "start_date" \in DOMAIN t
                /\ t.start_date.t = "str"
                /\ t.start_date.v \in WaysToWrite(DaysAfter(today, k))}

RECURSIVE UpcomingReminders(_, _, _)
UpcomingReminders(user_trips, i, today) ==
  IF i > Len(user_trips) THEN <<>>
  ELSE LET t == user_trips[i]
           ks == DaysUntilStart(t, today)
           rest == UpcomingReminders(user_trips, i + 1, today)
       IN  IF ks = {} THEN rest
           ELSE <<[destination |-> IF "destination" \in DOMAIN t THEN t.destination
                                   ELSE PyStr(s_unknown),
                   days_left |-> CHOOSE k \in ks : TRUE]>> \o rest

TripStarting(sd) == new_trip(d_Paris, sd, d_2025_06_05, <<>>, PyNone, PyNone)

\* C11: trigger_reminders emits a reminder for exactly the trips of the user
\* whose start date reads as a YYYY-MM-DD date that is 0 to 3 days after
\* today, each with that number of days and in the order of the trips; a
\* start date that does not parse, lies in the past or more than 3 days ahead
\* gives none.  On 2025-06-01 a start on 2025-06-03 gives 2 days and a start
\* on 2025-06-10 gives no reminder.
C11_RemindersWithinThreeDays ==
  RemindersCall =>
    /\ call.res = UpcomingReminders(call.arg.user_trips, 1, call.arg.today)
    /\ (/\ call.arg.today = [year |-> 2025, month |-> 6, day |-> 1]
        /\ call.arg.user_trips = <<TripStarting(d_2025_06_03), TripStarting(d_2025_06_10)>>)
         => call.res = <<[destination |-> PyStr(d_Paris), days_left |-> 2]>>

\* On 2025-06-01 the trips starting 2025-06-03 and 2025-06-10 were given and
\* one reminder, 2 days, was emitted.
C11_Witness ==
  /\ RemindersCall
  /\ call.arg.today = [year |-> 2025, month |-> 6, day |-> 1]
  /\ call.arg.user_trips = <<TripStarting(d_2025_06_03), TripStarting(d_2025_06_10)>>
  /\ call.res = <<[destination |-> PyStr(d_Paris), days_left |-> 2]>>

\* C12: a failed login has one observable outcome, the report "Invalid
\* credentials." with the session left logged out, empty username and role
\* user, whether the username is unknown or it exists and the password is
\* wrong.
C12_FailedLoginIsUniform ==
  [][\A s \in Sessions :
       (Ends(s, "login") /\ ~session'[s].logged_in)
       => (/\ outcome'[s].result = "Invalid credentials."
           /\ session'[s] = LoggedOut)]_vars

\* C13: a signup whose username is already a key of the users mapping ends
\* with the warning "Username already exists.", no exception, and leaves
\* users.json, and with it the record of the existing account, unchanged.
C13_DuplicateSignupIsWarning ==
  [][\A s \in Sessions :
       (Ends(s, "sign_up") /\ outcome'[s].subject \in DOMAIN run[s].users)
       => (/\ outcome'[s].result = "Username already exists."
           /\ users_file' = users_file)]_vars

\* A signup for the stored username alice was refused with the warning.
C13_Witness ==
  \E s \in Sessions :
    /\ outcome[s] = Report("sign_up", "alice", "Username already exists.")
    /\ users_file.kind = "json"
    /\ "alice" \in StoredUsernames(users_file)

LoadUsersCall == call.fn = "load_users" /\ call.done

UserFields == {"password", "role", "profile_pic", "bio", "favorite_destination", "goals"}

\* C14: load_users turns a legacy bare password string into a full record
\* with that string as password, role "user", a null profile picture and
\* empty bio, favorite_destination and goals; a record stored as an object
\* keeps every field it had, a record in full form is returned as stored.
C14_LegacyPasswordIsUpgraded ==
  (LoadUsersCall /\ call.arg.kind = "json" /\ ~call.res.raised) =>
    \A u \in DOMAIN call.arg.doc.members :
      LET J == call.arg.doc.members[u]
          rec == call.res.value[u]
      IN  /\ J.j = "string" =>
                /\ DOMAIN rec = UserFields
                /\ rec.password = PyStr(J.s)
                /\ rec.role = PyStr(<<"u","s","e","r">>)
                /\ rec.profile_pic = PyNone
                /\ rec.bio = PyStr(<<>>)
                /\ rec.favorite_destination = PyStr(<<>>)
                /\ rec.goals = PyStr(<<>>)
          /\ J.j = "object" =>
                /\ \A k \in DOMAIN J.members : rec[k] = py_of_json(J.members[k])
                /\ UserFields \subseteq DOMAIN J.members => rec = py_of_json(J)

\* users.json with the bare password string "pw1" for alice and a full
\* administrator record for bob was loaded.
C14_Witness ==
  /\ LoadUsersCall
  /\ call.arg = LegacyUsersFile
  /\ ~call.res.raised
  /\ call.res.value["alice"].password = PyStr(p_pw1)
  /\ call.res.value["alice"].role = PyStr(s_user)
  /\ call.res.value["bob"].role = PyStr(s_admin)

\* C15: for every trip count n >= 0 the next_threshold of get_user_badge(n)
\* is None or strictly greater than n, so that the remaining trips shown on
\* the Home page are at least 1 whenever the badge is not the last one.
C15_NextThresholdAboveCount ==
  (call.fn = "get_user_badge" /\ call.done) =>
    \/ call.res[3] = None
    \/ /\ call.res[3][1] > call.arg
       /\ remaining(call.res[3], call.arg) >= 1

\* get_user_badge(6) was called: the next threshold is 10, 4 trips remain.
C15_Witness ==
  /\ call.fn = "get_user_badge" /\ call.done
  /\ call.arg = 6
  /\ call.res[3] = <<10>>
  /\ remaining(call.res[3], call.arg) = 4

\* Every trip record of the mapping has the eight fields.
HasAllTripFields(trips) ==
  \A u \in DOMAIN trips : \A i \in 1..Len(trips[u]) :
    AllTripFields \subseteq DOMAIN trips[u][i]

\* The default of each field, as the specification gives it: the empty
\* string, the empty list, the null coordinate.
TripDefaults ==
  [destination |-> PyStr(<<>>), start_date |-> PyStr(<<>>),
   end_date |-> PyStr(<<>>), notes |-> PyStr(<<>>),
   expenses |-> <<>>, checklist |-> <<>>, lat |-> PyNone, lon |-> PyNone]

\* trips is the content of file with every missing field at its default and
\* every stored field as it was stored.
FilledInFrom(file, trips) ==
  IF file.kind # "json" THEN trips = <<>>
  ELSE /\ DOMAIN trips = DOMAIN file.doc.members
       /\ \A u \in DOMAIN trips :
            LET stored == py_of_json(file.doc.members[u])
            IN  /\ Len(trips[u]) = Len(stored)
                /\ \A i \in 1..Len(stored) :
                     /\ \A k \in DOMAIN stored[i] : trips[u][i][k] = stored[i][k]
                     /\ \A k \in AllTripFields \ DOMAIN stored[i] :
                          trips[u][i][k] = TripDefaults[k]

\* C16: after a load of a valid trips document and any Trip Planner
\* operations, every trip record of the in-memory trips mapping has the
\* fields destination, start_date, end_date, notes, expenses, checklist, lat
\* and lon; the load fills a missing field with its default and changes no
\* field that was stored, and what a Trip Planner handler writes back has all
\* the fields too.
C16_LoadedTripsHaveAllFields ==
  [][\A s \in Sessions :
       /\ run'[s].pc = "loaded" => HasAllTripFields(run'[s].trips)
       /\ (run[s].pc = "idle" /\ run'[s].pc = "loaded")
            => FilledInFrom(trips_file, run'[s].trips)
       /\ (run[s].pc = "loaded" /\ run'[s].pc = "idle" /\ trips_file' # trips_file)
            => /\ trips_file'.kind = "json"
               /\ HasAllTripFields(py_of_json(trips_file'.doc))]_vars

\* A run has loaded bob's trip of the older schema after an expense was added
\* to it: the fields the old record lacked are there with their defaults.
C16_Witness ==
  \E s \in Sessions :
    /\ run[s].pc = "loaded"
    /\ "bob" \in DOMAIN run[s].trips
    /\ Len(run[s].trips["bob"]) = 1
    /\ run[s].trips["bob"][1].destination = PyStr(d_Lyon)
    /\ run[s].trips["bob"][1].start_date = PyStr(<<>>)
    /\ run[s].trips["bob"][1].lat = PyNone
    /\ Len(run[s].trips["bob"][1].expenses) = 1

\* The trips of user u in the given content of trips.json.
StoredTripsIn(file, u) ==
  IF file.kind = "json" /\ u \in DOMAIN file.doc.members
  THEN py_of_json(file.doc.members[u])
  ELSE <<>>

StoredTripUsers(file) == IF file.kind = "json" THEN DOMAIN file.doc.members ELSE {}

\* C17: Delete Trip pressed for the trip the user sees at index i removes
\* exactly that trip from the user's persisted sequence and leaves the other
\* trips of the user, their order and every other user's trips as they were;
\* the index addresses the trip that the session displayed, also when another
\* session has saved a change to the list between the display and the press.
C17_DeleteRemovesTheTripShown ==
  [][\A s \in Sessions :
       Ends(s, "delete_trip")
       => LET u == session[s].username
              i == outcome'[s].detail[1]
          IN  /\ StoredTripsIn(trips_file', u) = py_pop(Shown(s), i)
              /\ \A v \in (StoredTripUsers(trips_file) \cup StoredTripUsers(trips_file')) \ {u} :
                   StoredTripsIn(trips_file', v) = StoredTripsIn(trips_file, v)]_vars

\* The total of one trip as the specification counts it.
TripTotal(t) ==
  SumSeq([j \in 1..Len(t.expenses) |-> AmountOrZero(t.expenses[j])])

\* C18: per_trip holds for each trip an entry (destination, total) whose
\* total is the sum of the expense amounts of that trip alone, the entries
\* are ordered by total descending, and two trips that share a destination
\* name have an entry each.
C18_OneEntryPerTrip ==
  (InsightsCall /\ ~call.res.raised) =>
    LET trips == call.arg
        chart == call.res.value.per_trip
    IN  /\ Len(chart) = Len(trips)
        /\ \E p \in [1..Len(trips) -> 1..Len(trips)] :
             /\ \A a, b \in 1..Len(trips) : p[a] = p[b] => a = b
             /\ \A i \in 1..Len(trips) :
                  /\ chart[p[i]].destination = trips[i].destination
                  /\ chart[p[i]].amount = TripTotal(trips[i])
        /\ \A g \in 1..(Len(chart) - 1) : chart[g].amount >= chart[g + 1].amount

\* The role users.json stores for username u: the field role of the record,
\* "user" for a record without it and for a legacy bare password string.
StoredRole(file, u) ==
  LET J == file.doc.members[u]
  IN  IF J.j = "object" /\ "role" \in DOMAIN J.members THEN J.members["role"].s
      ELSE <<"u","s","e","r">>

HasAccount(file, u) == file.kind = "json" /\ u \in DOMAIN file.doc.members

AdminOps == {"admin_switch", "admin_reset_pic"}

\* Signup stores the role "user", no step changes a stored role, and a
\* session that ends an admin operation had the role admin, as has the stored
\* account it was logged in to.
RolesAreKept ==
  /\ \A u \in Users :
       HasAccount(users_file', u) =>
         IF HasAccount(users_file, u)
         THEN StoredRole(users_file', u) = StoredRole(users_file, u)
         ELSE StoredRole(users_file', u) = <<"u","s","e","r">>
  /\ \A s \in Sessions :
       (\E op \in AdminOps : Ends(s, op))
       => /\ session[s].logged_in
          /\ session[s].role = <<"a","d","m","i","n">>
          /\ HasAccount(users_file, session[s].username)
          /\ StoredRole(users_file, session[s].username) = <<"a","d","m","i","n">>

\* C19 as stated: after any in-app operations a session that is logged in
\* has the role users.json stores for the account of its username; signup
\* stores "user", no operation changes a stored role, and Switch as and Reset
\* Pic are only performed by a session whose account has the role admin.
C19_SessionRoleIsStoredRole ==
  [][/\ RolesAreKept
     /\ \A s \in Sessions :
          session'[s].logged_in
          => /\ HasAccount(users_file', session'[s].username)
             /\ session'[s].role = StoredRole(users_file', session'[s].username)]_vars

\* C19 as amended: a session that is logged in has the role users.json
\* stores for the account of its username as long as that account is stored
\* (a signup of a run that loaded users.json earlier can write the account
\* away); signup stores "user", no operation changes a stored role, and
\* Switch as and Reset Pic are only performed by a session whose account has
\* the role admin.
C19_SessionRoleIsStoredRoleIfStored ==
  [][/\ RolesAreKept
     /\ \A s \in Sessions :
          (session'[s].logged_in /\ HasAccount(users_file', session'[s].username))
          => session'[s].role = StoredRole(users_file', session'[s].username)]_vars

\* The administrator bob has switched to alice: the session is alice's now,
\* with her role, and both accounts are stored with the roles they had.
C19_Witness ==
  \E s \in Sessions :
    /\ outcome[s] = Report("admin_switch", "alice", "rerun")
    /\ session[s] = [logged_in |-> TRUE, username |-> "alice", role |-> s_user]
    /\ HasAccount(users_file, "alice") /\ HasAccount(users_file, "bob")
    /\ StoredRole(users_file, "alice") = s_user
    /\ StoredRole(users_file, "bob") = s_admin

=============================================================================
